---------------------------- MODULE Spec2Model ----------------------------
(***************************************************************************)
(* Model of the journal RAG store (rag/journal_rag.py): the chunker, the   *)
(* ingestion pipeline, the destructive operations and the backup /         *)
(* retention manager of class JournalRAG.                                  *)
(*                                                                         *)
(* Strings are sequences of one-character strings, so that slicing,        *)
(* stripping, prefix tests and id formatting are computed, not assumed.    *)
(***************************************************************************)
EXTENDS Integers, Sequences, FiniteSets, TLC

(***************************************************************************)
(* Bounds of the model.                                                    *)
(***************************************************************************)
MaxTextLen == 5
MaxChunkSize == 3
MaxOverlap == 3
MaxIter == 7
MaxTime == 1
MaxMtime == 1

(***************************************************************************)
(* Program constants.                                                      *)
(***************************************************************************)
Lookback == 100
KeepBackups == 5

(***************************************************************************)
(* Python string primitives.                                               *)
(***************************************************************************)
Alphabet == {"a", " ", "."}

IsSpace(c) == c = " "

IsTerminator(c) == c \in {".", "!", "?"}

Max(a, b) == IF a >= b THEN a ELSE b

Min(a, b) == IF a <= b THEN a ELSE b

\* text[i] of Python: 0-based, a negative i counts from the end; the caller
\* checks InRange first (Python raises IndexError outside it).
InRange(text, i) == -Len(text) <= i /\ i < Len(text)

PyAt(text, i) == IF i >= 0 THEN text[i + 1] ELSE text[Len(text) + i + 1]

\* text[lo:hi] of Python: negative bounds count from the end, both are clamped.
PyClamp(text, k) ==
  IF k < 0 THEN Max(Len(text) + k, 0) ELSE Min(k, Len(text))

PySlice(text, lo, hi) ==
  SubSeq(text, PyClamp(text, lo) + 1, PyClamp(text, hi))

RECURSIVE LStrip(_)
LStrip(s) ==
  IF s # <<>> /\ IsSpace(Head(s)) THEN LStrip(Tail(s)) ELSE s

RECURSIVE RStrip(_)
RStrip(s) ==
  IF s # <<>> /\ IsSpace(s[Len(s)]) THEN RStrip(SubSeq(s, 1, Len(s) - 1)) ELSE s

\* str.strip()
Strip(s) == RStrip(LStrip(s))

(***************************************************************************)
(* JournalRAG._chunk_text                                                  *)
(***************************************************************************)
\* for i in range(end, max(start + chunk_size - 100, start), -1): the loop
\* stops at the first i, going down from hi, where text[i] raises IndexError
\* or is a terminator followed by whitespace.  Result: kind "found" with the
\* new end (i + 1), "none" when the range is exhausted, "error" when text[i]
\* raises.
ScanBoundary(text, hi, lo) ==
  LET stops == { i \in (lo + 1)..hi :
                   \/ ~InRange(text, i)
                   \/ /\ IsTerminator(PyAt(text, i))
                      /\ i + 1 < Len(text)
                      /\ IsSpace(PyAt(text, i + 1)) }
      first == CHOOSE i \in stops : \A j \in stops : j <= i
  IN  IF stops = {} THEN [kind |-> "none", end |-> 0]
      ELSE IF ~InRange(text, first) THEN [kind |-> "error", end |-> 0]
      ELSE [kind |-> "found", end |-> first + 1]

\* A window whose scan goes back to the start of the window, however far.
WindowEndWholeWindow(text, chunk_size, start) ==
  LET end == start + chunk_size
      scan == IF end < Len(text) THEN ScanBoundary(text, end, start)
              ELSE [kind |-> "none", end |-> 0]
  IN  IF scan.kind = "none" THEN [kind |-> "found", end |-> end] ELSE scan

\* The window that starts at start: kind "error" (IndexError), or its end.
WindowEnd(text, chunk_size, start) ==
  LET end == start + chunk_size
      scan == IF end < Len(text)
              THEN ScanBoundary(text, end,
                                Max(start + chunk_size - Lookback, start))
              ELSE [kind |-> "none", end |-> 0]
  IN  IF scan.kind = "none" THEN [kind |-> "found", end |-> end] ELSE scan

\* One chunk: text[start:end].strip()
ChunkAt(text, start, end) == Strip(PySlice(text, start, end))

\* The loop never ends when a start value comes back (the loop's only state
\* is start), or when chunk_size <= 0 (no scan: every step moves start by
\* chunk_size - overlap) and that step is not positive.
NeverEnds(chunk_size, overlap, start, seen) ==
  \/ start \in seen
  \/ chunk_size <= 0 /\ chunk_size - overlap <= 0

\* The while loop, run to its end: status "ok", "error" (IndexError) or
\* "diverge" (the loop never ends).
RECURSIVE ChunkLoop(_, _, _, _, _, _)
ChunkLoop(text, chunk_size, overlap, start, chunks, seen) ==
  IF ~(start < Len(text)) THEN [status |-> "ok", chunks |-> chunks]
  ELSE IF NeverEnds(chunk_size, overlap, start, seen)
       THEN [status |-> "diverge", chunks |-> chunks]
  ELSE LET w == WindowEnd(text, chunk_size, start)
       IN  IF w.kind = "error" THEN [status |-> "error", chunks |-> chunks]
           ELSE ChunkLoop(text, chunk_size, overlap, w.end - overlap,
                          Append(chunks, ChunkAt(text, start, w.end)),
                          seen \cup {start})

ChunkText(text, chunk_size, overlap) ==
  IF Len(text) <= chunk_size
  THEN [status |-> "ok", chunks |-> <<text>>]
  ELSE ChunkLoop(text, chunk_size, overlap, 0, <<>>, {})

(***************************************************************************)
(* Identity: doc_id = f"{metadata['entry_date']}_chunk_{i}"                 *)
(***************************************************************************)
DigitChars == <<"0", "1", "2", "3", "4", "5", "6", "7", "8", "9">>

\* str(n) for n >= 0
RECURSIVE Digits(_)
Digits(n) ==
  IF n < 10 THEN <<DigitChars[n + 1]>>
  ELSE Digits(n \div 10) \o <<DigitChars[(n % 10) + 1]>>

ChunkId(date, i) ==
  date \o <<"_", "c", "h", "u", "n", "k", "_">> \o Digits(i)

\* str.startswith
StartsWith(s, prefix) ==
  Len(prefix) <= Len(s) /\ SubSeq(s, 1, Len(prefix)) = prefix

(***************************************************************************)
(* The source directories handed to ingest_from_ocr.  A directory is a     *)
(* record: whether text/ and metadata/ exist, and the text files in name   *)
(* order (sorted(text_dir.glob("*.txt"))), each with its metadata file.    *)
(***************************************************************************)
Date1 == <<"2", "0", "2", "5", "-", "0", "1", "-", "1", "5">>
Date2 == <<"2", "0", "2", "5", "-", "0", "2", "-", "0", "1">>
Date3 == <<"2", "0", "2", "5", "-", "0", "3", "-", "0", "9">>

TextLong == <<"a", ".", " ", " ", "a">>
TextShort == <<"a", "a", "a">>
TextPadded == <<" ", "a", " ", "a", " ">>
TextBlank == <<" ">>

\* metadata kinds: "ok" (a JSON object), "missing" (no file), "invalid" (not
\* JSON).  hasDate / hasWc: the object has the key entry_date / word_count.
File(name, readable, raw, kind, hasDate, date, hasWc, wc) ==
  [name |-> name, readable |-> readable, raw |-> raw, kind |-> kind,
   hasDate |-> hasDate, entry_date |-> date, hasWc |-> hasWc,
   word_count |-> wc]

GoodFile(name, raw, date, wc) ==
  File(name, TRUE, raw, "ok", TRUE, date, TRUE, wc)

FileLong == GoodFile(1, TextLong, Date1, 3)
FileChanged == GoodFile(1, TextShort, Date1, 1)
FileLater == GoodFile(2, TextPadded, Date2, 2)

BadFiles ==
  { File(1, FALSE, TextLong, "ok", TRUE, Date1, TRUE, 3),
    File(1, TRUE, TextLong, "invalid", TRUE, Date1, TRUE, 3),
    File(1, TRUE, TextLong, "ok", FALSE, Date1, TRUE, 3),
    File(1, TRUE, TextLong, "ok", TRUE, Date1, FALSE, 3),
    File(1, TRUE, TextLong, "missing", TRUE, Date1, TRUE, 3),
    File(1, TRUE, TextBlank, "ok", TRUE, Date1, TRUE, 0) }

Dir(exists, files) == [exists |-> exists, files |-> files]

MissingDir == Dir(FALSE, <<>>)

GoodDirs ==
  { Dir(TRUE, <<>>), Dir(TRUE, <<FileLong, FileLater>>),
    Dir(TRUE, <<FileChanged, FileLater>>) }

BadDirs == { Dir(TRUE, <<b, FileLater>>) : b \in BadFiles }

(***************************************************************************)
(* State.                                                                  *)
(***************************************************************************)
VARIABLES
  index,      \* the collection: a set of chunk records, one per id
  dbMtime,    \* st_mtime of the index directory db_path, as a number: only
              \* its order relative to the snapshots' st_mtime matters
  backups,    \* the directories under vector_db_backups
  now,        \* the clock, in seconds
  call,       \* the operation in progress, or the last one and its result
  cText, cSize, cOverlap,   \* arguments of a _chunk_text call
  cStart, cChunks, cPc,     \* its locals and position
  cWindows,                 \* the (start, end) of every text[start:end] it
                            \* appended
  registry,   \* plugin_loader._registry
  discovered, \* the last discover_plugins call and its result
  sibling     \* a second JournalRAG on another db_path: the path, the
              \* snapshots it made, and its backups directory when that is
              \* not the directory of this one

sysVars == <<index, dbMtime, backups, now, call>>
chunkVars == <<cText, cSize, cOverlap, cStart, cChunks, cPc, cWindows>>
pluginVars == <<registry, discovered>>
siblingVars == <<sibling>>
vars == <<index, dbMtime, backups, now, call,
          cText, cSize, cOverlap, cStart, cChunks, cPc, cWindows,
          registry, discovered, sibling>>

Ids(idx) == { c.id : c \in idx }

NoSnap == <<>>

\* Results: an integer, a boolean (val 1 / 0), a path, an exception, or no
\* return at all.
RetInt(n) == [kind |-> "int", val |-> n, exc |-> ""]
RetBool(b) == [kind |-> "bool", val |-> IF b THEN 1 ELSE 0, exc |-> ""]
RetPath == [kind |-> "path", val |-> 0, exc |-> ""]
Raised(exc) == [kind |-> "raise", val |-> 0, exc |-> exc]
Hangs == [kind |-> "hang", val |-> 0, exc |-> ""]
NoRet == [kind |-> "none", val |-> 0, exc |-> ""]

\* The record of a call: pre is the index when it was made, snap the name of
\* the snapshot it created, pruned the snapshots its retention step removed,
\* rep whether it is an ingestion that repeats the call before it (same
\* arguments) and prevRet that call's result.
Call(op, arg, stage, ret, snap, pruned) ==
  LET same == op = "ingest" /\ call.op = op /\ call.arg = arg
  IN  [op |-> op, arg |-> arg, stage |-> stage, ret |-> ret,
       pre |-> index, snap |-> snap, pruned |-> pruned, rep |-> same,
       prevRet |-> IF same THEN call.ret ELSE NoRet]

\* The same call, one stage further.
Advance(stage, ret) == [call EXCEPT !.stage = stage, !.ret = ret]

Idle == call.stage = "done"

\* An st_mtime later than every one there is.
RECURSIVE MaxOf(_)
MaxOf(S) ==
  IF S = {} THEN 0
  ELSE LET x == CHOOSE y \in S : TRUE IN Max(x, MaxOf(S \ {x}))

\* The index directory's st_mtime after the adapter wrote to the store (its
\* write transaction creates and removes a journal file in the directory):
\* later than the st_mtime of every snapshot there is.
Touched == Max(dbMtime, 1 + MaxOf({ b.mtime : b \in backups }))

\* The model stops writing when the st_mtime numbers run out.
CanWrite == Touched <= MaxMtime

\* The same, for a write that follows a snapshot of the index directory.
CanWriteAfterBackup == 1 + MaxOf({dbMtime} \cup { b.mtime : b \in backups }) <= MaxMtime

(***************************************************************************)
(* JournalRAG.ingest_from_ocr                                              *)
(***************************************************************************)
\* A chunk record whose id is numbered from the end of the entry.
ChunkRecordFromEnd(f, i, chunk, n) ==
  [id |-> ChunkId(f.entry_date, n - 1 - i), text |-> chunk,
   date |-> f.entry_date, chunk_index |-> i, total_chunks |-> n,
   word_count |-> f.word_count, source_file |-> f.name]

\* A chunk record whose total_chunks counts the chunks added so far.
ChunkRecordSoFar(f, i, chunk, n) ==
  [id |-> ChunkId(f.entry_date, i), text |-> chunk, date |-> f.entry_date,
   chunk_index |-> i, total_chunks |-> i + 1, word_count |-> f.word_count,
   source_file |-> f.name]

\* The record stored for chunk i of n of file f.
ChunkRecord(f, i, chunk, n) ==
  [id |-> ChunkId(f.entry_date, i), text |-> chunk, date |-> f.entry_date,
   chunk_index |-> i, total_chunks |-> n, word_count |-> f.word_count,
   source_file |-> f.name]

\* A duplicate check that never finds the id.
ExistsNever(idx, id) == FALSE

\* existing = self.collection.get(ids=[doc_id]); existing['ids'] is not empty
Exists(idx, id) == \E c \in idx : c.id = id

\* self.collection.add: ok is FALSE when the id is already stored (the
\* adapter refuses it).
CollectionAdd(idx, rec) ==
  IF \E c \in idx : c.id = rec.id
  THEN [index |-> idx, ok |-> FALSE, exc |-> "StorageError"]
  ELSE [index |-> idx \cup {rec}, ok |-> TRUE, exc |-> ""]

\* A loop that writes the chunk over the stored one when the id exists.
RECURSIVE AddChunksReplacing(_, _, _, _)
AddChunksReplacing(f, chunks, i, idx) ==
  IF i >= Len(chunks) THEN [index |-> idx, ok |-> TRUE, exc |-> ""]
  ELSE IF ~f.hasDate THEN [index |-> idx, ok |-> FALSE, exc |-> "KeyError"]
  ELSE IF ~f.hasWc THEN [index |-> idx, ok |-> FALSE, exc |-> "KeyError"]
  ELSE LET rec == ChunkRecord(f, i, chunks[i + 1], Len(chunks))
           kept == { c \in idx : c.id # rec.id }
       IN  AddChunksReplacing(f, chunks, i + 1, kept \cup {rec})

\* for i, chunk in enumerate(chunks), from chunk i on.  ok is FALSE when an
\* exception is raised; the chunks added before it stay.
RECURSIVE AddChunks(_, _, _, _)
AddChunks(f, chunks, i, idx) ==
  IF i >= Len(chunks) THEN [index |-> idx, ok |-> TRUE, exc |-> ""]
  ELSE IF ~f.hasDate THEN [index |-> idx, ok |-> FALSE, exc |-> "KeyError"]
  ELSE IF Exists(idx, ChunkId(f.entry_date, i))
       THEN AddChunks(f, chunks, i + 1, idx)
  ELSE IF ~f.hasWc THEN [index |-> idx, ok |-> FALSE, exc |-> "KeyError"]
  ELSE LET a == CollectionAdd(idx, ChunkRecord(f, i, chunks[i + 1],
                                                 Len(chunks)))
       IN  IF a.ok THEN AddChunks(f, chunks, i + 1, a.index) ELSE a

\* for text_file in text_files, from the k-th file on.
RECURSIVE IngestFiles(_, _, _, _, _, _)
IngestFiles(files, k, chunk_size, overlap, idx, ingested) ==
  IF k > Len(files) THEN [index |-> idx, ret |-> RetInt(ingested)]
  ELSE LET f == files[k]
           text == Strip(f.raw)
           r == ChunkText(text, chunk_size, overlap)
           a == AddChunks(f, r.chunks, 0, idx)
       IN  IF f.kind = "missing"
           THEN IngestFiles(files, k + 1, chunk_size, overlap, idx, ingested)
           ELSE IF ~f.readable
           THEN [index |-> idx, ret |-> Raised("OSError")]
           ELSE IF f.kind = "invalid"
           THEN [index |-> idx, ret |-> Raised("JSONDecodeError")]
           ELSE IF text = <<>>
           THEN IngestFiles(files, k + 1, chunk_size, overlap, idx, ingested)
           ELSE IF r.status = "diverge" THEN [index |-> idx, ret |-> Hangs]
           ELSE IF r.status = "error"
           THEN [index |-> idx, ret |-> Raised("IndexError")]
           ELSE IF ~a.ok THEN [index |-> a.index, ret |-> Raised(a.exc)]
           ELSE IngestFiles(files, k + 1, chunk_size, overlap, a.index,
                            ingested + 1)

\* An ingestion that does not look whether text/ and metadata/ exist.
IngestFromOcrUnchecked(dir, chunk_size, overlap, idx) ==
  IF dir.files = <<>> THEN [index |-> idx, ret |-> RetInt(0)]
  ELSE IngestFiles(dir.files, 1, chunk_size, overlap, idx, 0)

IngestFromOcr(dir, chunk_size, overlap, idx) ==
  IF ~dir.exists
  THEN [index |-> idx, ret |-> Raised("FileNotFoundError")]
  ELSE IF dir.files = <<>> THEN [index |-> idx, ret |-> RetInt(0)]
  ELSE IngestFiles(dir.files, 1, chunk_size, overlap, idx, 0)

Ingest(dir, chunk_size, overlap) ==
  /\ Idle
  /\ LET r == IngestFromOcr(dir, chunk_size, overlap, index)
     IN  /\ r.index # index => CanWrite
         /\ index' = r.index
         /\ dbMtime' = IF r.index = index THEN dbMtime ELSE Touched
         /\ call' = Call("ingest", <<dir, chunk_size, overlap>>, "done",
                         r.ret, NoSnap, {})
  /\ UNCHANGED <<backups, now>>
  /\ UNCHANGED chunkVars
  /\ UNCHANGED pluginVars
  /\ UNCHANGED siblingVars

(***************************************************************************)
(* JournalRAG.backup / restore                                             *)
(***************************************************************************)
\* backup_<timestamp>_<reason>
BackupName(reason) == <<now, reason>>

Name(b) == <<b.ts, b.reason>>

\* shutil.copytree(self.db_path, backup_path): the copy of the index
\* directory, which gets the index directory's st_mtime (copystat).
Snapshot(reason) ==
  [ts |-> now, reason |-> reason, mtime |-> dbMtime, content |-> index]

\* copytree raises FileExistsError when backup_path exists.
NameTaken(reason) == \E b \in backups : Name(b) = BackupName(reason)

\* A retention loop that removes nothing.
RemovableNone(all) == {{}}

\* The sets of directories the retention loop can remove from all: it sorts
\* by st_mtime (equal st_mtime: in the order iterdir() yields them, which is
\* arbitrary) and pops the first ones while more than 5 remain.
Removable(all) ==
  { R \in SUBSET all :
      /\ Cardinality(R) = Max(Cardinality(all) - KeepBackups, 0)
      /\ \A r \in R : \A k \in all \ R : r.mtime <= k.mtime }

\* A backup whose failure is swallowed: the caller goes on without a snapshot.
BackupThenSwallow(op, arg, reason, stage, ret) ==
  \/ /\ NameTaken(reason)
     /\ call' = Call(op, arg, stage, ret, NoSnap, {})
     /\ UNCHANGED backups
  \/ /\ ~NameTaken(reason)
     /\ \E R \in Removable(backups \cup {Snapshot(reason)}) :
          /\ backups' = (backups \cup {Snapshot(reason)}) \ R
          /\ call' = Call(op, arg, stage, ret, BackupName(reason), R)

\* A backup that copies over the snapshot of the same name when there is one.
BackupThenOverwrite(op, arg, reason, stage, ret) ==
  LET others == { b \in backups : Name(b) # BackupName(reason) }
  IN  \E R \in Removable(others \cup {Snapshot(reason)}) :
        /\ backups' = (others \cup {Snapshot(reason)}) \ R
        /\ call' = Call(op, arg, stage, ret, BackupName(reason), R)

\* self.backup(reason), called by op(arg), which goes on at stage with ret:
\* copytree raises, or the copy is made and retention removes R.
BackupThen(op, arg, reason, stage, ret) ==
  \/ /\ NameTaken(reason)
     /\ call' = Call(op, arg, "done", Raised("FileExistsError"), NoSnap, {})
     /\ UNCHANGED backups
  \/ /\ ~NameTaken(reason)
     /\ \E R \in Removable(backups \cup {Snapshot(reason)}) :
          /\ backups' = (backups \cup {Snapshot(reason)}) \ R
          /\ call' = Call(op, arg, stage, ret, BackupName(reason), R)

Backup ==
  /\ Idle
  /\ BackupThen("backup", <<"manual">>, "manual", "done", RetPath)
  /\ UNCHANGED <<index, dbMtime, now>>
  /\ UNCHANGED chunkVars
  /\ UNCHANGED pluginVars
  /\ UNCHANGED siblingVars

\* restore(backup_path) of a snapshot, up to and with shutil.rmtree of the
\* index directory: no chunk is left in it.
RestoreCall(b) ==
  /\ Idle
  /\ b \in backups
  /\ index' = {}
  /\ call' = Call("restore", Name(b), "removed", NoRet, NoSnap, {})
  /\ UNCHANGED <<dbMtime, backups, now>>
  /\ UNCHANGED chunkVars
  /\ UNCHANGED pluginVars
  /\ UNCHANGED siblingVars

\* A restore that moves the snapshot into place instead of copying it.
RestoreByMove ==
  /\ call.op = "restore"
  /\ call.stage = "removed"
  /\ \E b \in backups :
       /\ Name(b) = call.arg
       /\ index' = b.content
       /\ dbMtime' = b.mtime
       /\ backups' = backups \ {b}
  /\ call' = Advance("done", RetBool(TRUE))
  /\ UNCHANGED now
  /\ UNCHANGED chunkVars
  /\ UNCHANGED pluginVars
  /\ UNCHANGED siblingVars

\* The rest of restore: copytree (which copies the snapshot's st_mtime to
\* the index directory), then the client is opened again, which leaves the
\* directory's st_mtime as it is or, when it creates a file there, makes it
\* the latest.
Restore ==
  /\ call.op = "restore"
  /\ call.stage = "removed"
  /\ \E b \in backups :
       /\ Name(b) = call.arg
       /\ index' = b.content
       /\ dbMtime' \in {b.mtime} \cup (IF CanWrite THEN {Touched} ELSE {})
  /\ call' = Advance("done", RetBool(TRUE))
  /\ UNCHANGED <<backups, now>>
  /\ UNCHANGED chunkVars
  /\ UNCHANGED pluginVars
  /\ UNCHANGED siblingVars

\* copytree raises (disk full, a file that cannot be read) or the process
\* is stopped in it: the exception leaves restore, the index directory
\* stays as rmtree and the unfinished copy left it.
RestoreCopyFails ==
  /\ call.op = "restore"
  /\ call.stage = "removed"
  /\ call' = Advance("done", Raised("OSError"))
  /\ UNCHANGED <<index, dbMtime, backups, now>>
  /\ UNCHANGED chunkVars
  /\ UNCHANGED pluginVars
  /\ UNCHANGED siblingVars

\* restore(backup_path) of the index directory itself: it is a directory,
\* rmtree removes it, and copytree finds no source.  The next JournalRAG
\* makes the directory anew.
RestoreLive ==
  /\ Idle
  /\ CanWrite
  /\ index' = {}
  /\ dbMtime' = Touched
  /\ call' = Call("restore", <<"live">>, "done", Raised("FileNotFoundError"),
                  NoSnap, {})
  /\ UNCHANGED <<backups, now>>
  /\ UNCHANGED chunkVars
  /\ UNCHANGED pluginVars
  /\ UNCHANGED siblingVars

\* restore(backup_path) of a directory that holds no index: its files and
\* its st_mtime replace the index directory, and the client opens an empty
\* collection there.
RestoreForeign ==
  /\ Idle
  /\ index' = {}
  /\ dbMtime' \in 0..MaxMtime
  /\ call' = Call("restore", <<"foreign">>, "done", RetBool(TRUE), NoSnap,
                  {})
  /\ UNCHANGED <<backups, now>>
  /\ UNCHANGED chunkVars
  /\ UNCHANGED pluginVars
  /\ UNCHANGED siblingVars

\* restore(backup_path) of a path that is no directory.
RestoreMissing ==
  /\ Idle
  /\ call' = Call("restore", <<"missing">>, "done", RetBool(FALSE), NoSnap,
                  {})
  /\ UNCHANGED <<index, dbMtime, backups, now>>
  /\ UNCHANGED chunkVars
  /\ UNCHANGED pluginVars
  /\ UNCHANGED siblingVars

(***************************************************************************)
(* The destructive operations: the call up to the return of self.backup,   *)
(* then the rest of the method.                                            *)
(***************************************************************************)
InCall(op) == call.op = op /\ call.stage = "backed_up"

\* self.collection.delete(ids=...)
Deleted(ids) ==
  /\ ids # {} => CanWrite
  /\ index' = { c \in index : c.id \notin ids }
  /\ dbMtime' = IF ids = {} THEN dbMtime ELSE Touched

\* self.collection.get(where={"date": date})['ids']
IdsOfDate(idx, date) == { c.id : c \in { x \in idx : x.date = date } }

\* [id for id in all_entries['ids'] if id.startswith(entry_id)]
MatchingIds(idx, entry_id) == { id \in Ids(idx) : StartsWith(id, entry_id) }

\* delete_entry_by_date(arg[1]) up to the return of self.backup; what else
\* arg holds is what the command line was given.
DeleteEntryByDateStart(arg) ==
  /\ Idle
  /\ IdsOfDate(index, arg[1]) # {} => CanWriteAfterBackup
  /\ BackupThen("delete_by_date", arg, "pre-delete", "backed_up", NoRet)
  /\ UNCHANGED <<index, dbMtime, now>>
  /\ UNCHANGED chunkVars
  /\ UNCHANGED pluginVars
  /\ UNCHANGED siblingVars

DeleteEntryByDateCall(date) == DeleteEntryByDateStart(<<date>>)

DeleteEntryByDate ==
  /\ InCall("delete_by_date")
  /\ LET ids == IdsOfDate(index, call.arg[1])
     IN  /\ Deleted(ids)
         /\ call' = Advance("done", RetInt(Cardinality(ids)))
  /\ UNCHANGED <<backups, now>>
  /\ UNCHANGED chunkVars
  /\ UNCHANGED pluginVars
  /\ UNCHANGED siblingVars

DeleteEntryByIdCall(entry_id) ==
  /\ Idle
  /\ MatchingIds(index, entry_id) # {} => CanWriteAfterBackup
  /\ BackupThen("delete_by_id", <<entry_id>>, "pre-delete", "backed_up",
                NoRet)
  /\ UNCHANGED <<index, dbMtime, now>>
  /\ UNCHANGED chunkVars
  /\ UNCHANGED pluginVars
  /\ UNCHANGED siblingVars

DeleteEntryById ==
  /\ InCall("delete_by_id")
  /\ LET ids == MatchingIds(index, call.arg[1])
     IN  /\ Deleted(ids)
         /\ call' = Advance("done", RetBool(ids # {}))
  /\ UNCHANGED <<backups, now>>
  /\ UNCHANGED chunkVars
  /\ UNCHANGED pluginVars
  /\ UNCHANGED siblingVars

\* A clear_all_entries that takes its snapshot before it looks at count().
ClearAllEntriesBackupFirst ==
  /\ Idle
  /\ index # {} => CanWriteAfterBackup
  /\ BackupThen("clear", <<>>, "pre-clear", "backed_up", NoRet)
  /\ UNCHANGED <<index, dbMtime, now>>
  /\ UNCHANGED chunkVars
  /\ UNCHANGED pluginVars
  /\ UNCHANGED siblingVars

\* clear_all_entries() up to the return of self.backup; arg holds what the
\* command line was given.
ClearAllEntriesStart(arg) ==
  /\ Idle
  /\ \/ /\ index = {}
        /\ call' = Call("clear", arg, "done", RetInt(0), NoSnap, {})
        /\ UNCHANGED backups
     \/ /\ index # {}
        /\ CanWriteAfterBackup
        /\ BackupThen("clear", arg, "pre-clear", "backed_up", NoRet)
  /\ UNCHANGED <<index, dbMtime, now>>
  /\ UNCHANGED chunkVars
  /\ UNCHANGED pluginVars
  /\ UNCHANGED siblingVars

ClearAllEntriesCall == ClearAllEntriesStart(<<>>)

ClearAllEntries ==
  /\ InCall("clear")
  /\ Deleted(Ids(call.pre))
  /\ call' = Advance("done", RetInt(Cardinality(Ids(call.pre))))
  /\ UNCHANGED <<backups, now>>
  /\ UNCHANGED chunkVars
  /\ UNCHANGED pluginVars
  /\ UNCHANGED siblingVars

\* A second passes.
Tick ==
  /\ Idle
  /\ now < MaxTime
  /\ now' = now + 1
  /\ UNCHANGED <<index, dbMtime, backups, call>>
  /\ UNCHANGED chunkVars
  /\ UNCHANGED pluginVars
  /\ UNCHANGED siblingVars

(***************************************************************************)
(* The store, opened on a fresh or on an existing index directory, then    *)
(* any sequence of operations.                                             *)
(***************************************************************************)
StoreDir == Dir(TRUE, <<FileLong, FileLater>>)
StoreDirs == {StoreDir, MissingDir}
StoreParams == [chunk_size |-> 3, overlap |-> 0]
StoreDates == {Date1, Date3}
StorePrefixes == {ChunkId(Date1, 0), Date1}

\* What an earlier ingestion left in the index directory.
EarlierIndex ==
  IngestFromOcr(StoreDir, StoreParams.chunk_size, StoreParams.overlap,
                {}).index

NoCall ==
  [op |-> "init", arg |-> <<>>, stage |-> "done", ret |-> NoRet,
   pre |-> {}, snap |-> NoSnap, pruned |-> {}, rep |-> FALSE,
   prevRet |-> NoRet]

\* self.db_path of the store, as (parent directory, name), and the
\* directory backup() and list_backups() work in:
\* self.db_path.parent / "vector_db_backups"
DbPath == <<"p", "vector_db">>

BackupDir(db_path) == <<db_path[1], "vector_db_backups">>

\* No second store.
NoOther == [path |-> <<>>, made |-> {}, dir |-> {}]

LoneIndex == sibling = NoOther

\* plugin_loader as imported: an empty registry, no discovery made.
NoDiscovery == [dir |-> {}, exists |-> FALSE, kind |-> "none", val |-> <<>>]

IdleLoader ==
  /\ registry = <<>>
  /\ discovered = NoDiscovery

IdleChunker ==
  /\ cText = <<>>
  /\ cSize = 0
  /\ cOverlap = 0
  /\ cStart = 0
  /\ cChunks = <<>>
  /\ cPc = "idle"
  /\ cWindows = <<>>

\* JournalRAG.__init__
Init ==
  /\ index \in {{}, EarlierIndex}
  /\ dbMtime = 0
  /\ backups = {}
  /\ now = 0
  /\ call = NoCall
  /\ IdleLoader
  /\ LoneIndex
  /\ IdleChunker

\* The life cycle of the store: one well-formed source directory, every
\* operation, the clock.
Next ==
  \/ \E dir \in StoreDirs :
       Ingest(dir, StoreParams.chunk_size, StoreParams.overlap)
  \/ Backup
  \/ \E b \in backups : RestoreCall(b)
  \/ Restore
  \/ RestoreCopyFails
  \/ RestoreMissing
  \/ RestoreLive
  \/ RestoreForeign
  \/ \E date \in StoreDates : DeleteEntryByDateCall(date)
  \/ DeleteEntryByDate
  \/ \E entry_id \in StorePrefixes : DeleteEntryByIdCall(entry_id)
  \/ DeleteEntryById
  \/ ClearAllEntriesCall
  \/ ClearAllEntries
  \/ Tick

Spec == Init /\ [][Next]_vars

\* Ingestion alone: every source directory, chunk size and overlap, into an
\* index that holds any part of an earlier ingestion (what deletions by id
\* leave of it).
IngestDirs == {MissingDir} \cup GoodDirs \cup BadDirs
IngestSizes == {2, 3}
IngestOverlaps == {0, 1}

InitIngest ==
  /\ index \in SUBSET EarlierIndex
  /\ dbMtime = 0
  /\ backups = {}
  /\ now = 0
  /\ call = NoCall
  /\ IdleLoader
  /\ LoneIndex
  /\ IdleChunker

NextIngest ==
  \E dir \in IngestDirs : \E chunk_size \in IngestSizes :
    \E overlap \in IngestOverlaps : Ingest(dir, chunk_size, overlap)

SpecIngest == InitIngest /\ [][NextIngest]_vars

\* Ingestion of directories in which two files carry the same entry_date,
\* and of a directory whose file for a date has changed, into an index that
\* holds any part of an earlier ingestion.
FileSameDate == GoodFile(2, TextPadded, Date1, 2)
FileSameDateLong == GoodFile(2, TextLong, Date1, 3)

SameDateDirs ==
  { Dir(TRUE, <<FileLong, FileSameDate>>),
    Dir(TRUE, <<FileChanged, FileSameDateLong>>),
    Dir(TRUE, <<FileChanged, FileLater>>),
    Dir(TRUE, <<FileLong, FileLater>>) }

NextSameDate ==
  \E dir \in SameDateDirs : \E chunk_size \in IngestSizes :
    \E overlap \in IngestOverlaps : Ingest(dir, chunk_size, overlap)

SpecSameDate == InitIngest /\ [][NextSameDate]_vars

(***************************************************************************)
(* _chunk_text on its own, one loop iteration at a time, for every text,   *)
(* chunk size and overlap within the bounds.                               *)
(***************************************************************************)
RECURSIVE Texts(_)
Texts(n) ==
  IF n = 0 THEN {<<>>}
  ELSE LET shorter == Texts(n - 1)
       IN  shorter \cup { Append(t, c) :
                            t \in { x \in shorter : Len(x) = n - 1 },
                            c \in Alphabet }

InitChunk ==
  /\ cText \in Texts(MaxTextLen)
  /\ cSize \in 1..MaxChunkSize
  /\ cOverlap \in -1..MaxOverlap
  /\ cStart = 0
  /\ cChunks = <<>>
  /\ cPc = "call"
  /\ cWindows = <<>>
  /\ index = {}
  /\ dbMtime = 0
  /\ backups = {}
  /\ now = 0
  /\ call = NoCall
  /\ IdleLoader
  /\ LoneIndex

\* A short-text return that strips the text.
ChunkShortStripped ==
  /\ cPc = "call"
  /\ Len(cText) <= cSize
  /\ cChunks' = <<Strip(cText)>>
  /\ cPc' = "return"
  /\ UNCHANGED <<cText, cSize, cOverlap, cStart, cWindows>>
  /\ UNCHANGED sysVars
  /\ UNCHANGED pluginVars
  /\ UNCHANGED siblingVars

\* if len(text) <= chunk_size: return [text]
ChunkShort ==
  /\ cPc = "call"
  /\ Len(cText) <= cSize
  /\ cChunks' = <<cText>>
  /\ cPc' = "return"
  /\ UNCHANGED <<cText, cSize, cOverlap, cStart, cWindows>>
  /\ UNCHANGED sysVars
  /\ UNCHANGED pluginVars
  /\ UNCHANGED siblingVars

\* chunks = []; start = 0
ChunkEnter ==
  /\ cPc = "call"
  /\ Len(cText) > cSize
  /\ cPc' = "loop"
  /\ UNCHANGED <<cText, cSize, cOverlap, cStart, cChunks, cWindows>>
  /\ UNCHANGED sysVars
  /\ UNCHANGED pluginVars
  /\ UNCHANGED siblingVars

\* A loop that steps back by the size of the overlap, whatever its sign.
ChunkWindowAbsOverlap ==
  /\ cPc = "loop"
  /\ cStart < Len(cText)
  /\ Len(cChunks) < MaxIter
  /\ LET w == WindowEnd(cText, cSize, cStart)
     IN  /\ w.kind = "found"
         /\ cChunks' = Append(cChunks, ChunkAt(cText, cStart, w.end))
         /\ cWindows' = Append(cWindows, <<cStart, w.end>>)
         /\ cStart' = w.end - Max(cOverlap, -cOverlap)
  /\ UNCHANGED <<cText, cSize, cOverlap, cPc>>
  /\ UNCHANGED sysVars
  /\ UNCHANGED pluginVars
  /\ UNCHANGED siblingVars

\* One iteration of the while loop.
ChunkWindow ==
  /\ cPc = "loop"
  /\ cStart < Len(cText)
  /\ Len(cChunks) < MaxIter
  /\ LET w == WindowEnd(cText, cSize, cStart)
     IN  /\ w.kind = "found"
         /\ cChunks' = Append(cChunks, ChunkAt(cText, cStart, w.end))
         /\ cWindows' = Append(cWindows, <<cStart, w.end>>)
         /\ cStart' = w.end - cOverlap
  /\ UNCHANGED <<cText, cSize, cOverlap, cPc>>
  /\ UNCHANGED sysVars
  /\ UNCHANGED pluginVars
  /\ UNCHANGED siblingVars

\* text[i] raises IndexError in the scan.
ChunkIndexError ==
  /\ cPc = "loop"
  /\ cStart < Len(cText)
  /\ WindowEnd(cText, cSize, cStart).kind = "error"
  /\ cPc' = "raise"
  /\ UNCHANGED <<cText, cSize, cOverlap, cStart, cChunks, cWindows>>
  /\ UNCHANGED sysVars
  /\ UNCHANGED pluginVars
  /\ UNCHANGED siblingVars

\* return chunks
ChunkReturn ==
  /\ cPc = "loop"
  /\ ~(cStart < Len(cText))
  /\ cPc' = "return"
  /\ UNCHANGED <<cText, cSize, cOverlap, cStart, cChunks, cWindows>>
  /\ UNCHANGED sysVars
  /\ UNCHANGED pluginVars
  /\ UNCHANGED siblingVars

NextChunk ==
  \/ ChunkShort
  \/ ChunkEnter
  \/ ChunkWindow
  \/ ChunkIndexError
  \/ ChunkReturn

SpecChunk == InitChunk /\ [][NextChunk]_vars

(***************************************************************************)
(* _chunk_text on the texts above and on texts longer than the lookback of *)
(* the scan, with chunk sizes around it: words without a sentence end but  *)
(* for one or two ". " in any place.                                       *)
(***************************************************************************)
LongLen == Lookback + MaxTextLen
LongSizes == (Lookback - 1)..(Lookback + 2)
LongOverlaps == 0..1

\* A text of LongLen characters with ". " at the (0-based) positions in at.
LongText(at) ==
  [k \in 1..LongLen |->
     IF k - 1 \in at THEN "." ELSE IF k - 2 \in at THEN " " ELSE "a"]

LongTexts ==
  { LongText({p}) : p \in 0..(LongLen - 2) }
    \cup { LongText({p, p + 3}) : p \in 0..(LongLen - 5) }

InitLookback ==
  /\ \/ /\ cText \in Texts(MaxTextLen)
        /\ cSize \in 1..MaxChunkSize
        /\ cOverlap \in -1..MaxOverlap
     \/ /\ cText \in LongTexts
        /\ cSize \in LongSizes
        /\ cOverlap \in LongOverlaps
  /\ cStart = 0
  /\ cChunks = <<>>
  /\ cPc = "call"
  /\ cWindows = <<>>
  /\ index = {}
  /\ dbMtime = 0
  /\ backups = {}
  /\ now = 0
  /\ call = NoCall
  /\ IdleLoader
  /\ LoneIndex

SpecLookback == InitLookback /\ [][NextChunk]_vars

(***************************************************************************)
(* The read operations: search, search_by_date_range, get_all_dates,       *)
(* list_all_entries, get_stats.  The adapter's ranking (embedding          *)
(* distance) and the order in which collection.get lists the records are   *)
(* not computed: an operation whose result depends on them has a set of    *)
(* possible results.                                                       *)
(***************************************************************************)
\* Python's None and a value that is not None.
None == [isNone |-> TRUE, val |-> <<>>]
Some(v) == [isNone |-> FALSE, val |-> v]

\* Code point order of the characters of a date.
DateChars == <<"-", "0", "1", "2", "3", "4", "5", "6", "7", "8", "9">>

CharCode(c) == CHOOSE i \in 1..Len(DateChars) : DateChars[i] = c

\* a <= b on Python strings.
RECURSIVE StrLeq(_, _)
StrLeq(a, b) ==
  IF a = <<>> THEN TRUE
  ELSE IF b = <<>> THEN FALSE
  ELSE IF Head(a) = Head(b) THEN StrLeq(Tail(a), Tail(b))
  ELSE CharCode(Head(a)) < CharCode(Head(b))

\* sorted(S) for a set of strings.
RECURSIVE SortedStrs(_)
SortedStrs(S) ==
  IF S = {} THEN <<>>
  ELSE LET least == CHOOSE x \in S : \A y \in S : StrLeq(x, y)
       IN  <<least>> \o SortedStrs(S \ {least})

\* The lists of k distinct records of S (all of S when it has fewer), in any
\* order.
RECURSIVE Rankings(_, _)
Rankings(S, k) ==
  IF k <= 0 \/ S = {} THEN {<<>>}
  ELSE UNION { { <<c>> \o r : r \in Rankings(S \ {c}, k - 1) } : c \in S }

\* One formatted result (search adds the record's distance).
Hit(c) == [date |-> c.date, text |-> c.text, chunk_index |-> c.chunk_index]

Formatted(r) == [i \in 1..Len(r) |-> Hit(r[i])]

RetList(l) == [kind |-> "list", val |-> l, exc |-> ""]
RetStats(s) == [kind |-> "stats", val |-> s, exc |-> ""]

\* search(query, n_results): what it may return.
SearchResults(idx, n_results) ==
  IF Cardinality(idx) = 0 THEN {RetList(<<>>)}
  ELSE { RetList(Formatted(r)) : r \in Rankings(idx, n_results) }

\* where={"$and": [{"date": {"$gte": start}}, {"date": {"$lte": end}}]}
InDateRange(c, start_date, end_date) ==
  StrLeq(start_date, c.date) /\ StrLeq(c.date, end_date)

\* search_by_date_range(start, end, query, n_results): what it may return.
\* The adapter either evaluates the filter on the date strings, or rejects
\* it (ChromaDB's validation of a where clause takes only int or float
\* operands for $gte and $lte), whatever the collection holds.
SearchByDateRangeResults(idx, start_date, end_date, n_results) ==
  { RetList(Formatted(r)) :
      r \in Rankings({ c \in idx : InDateRange(c, start_date, end_date) },
                     n_results) }
    \cup {Raised("ValueError")}

\* get_all_dates()
GetAllDates(idx) == SortedStrs({ c.date : c \in idx })

\* list_all_entries(): what it may return.  word_count is that of the
\* first record of the date that collection.get lists.
ListAllEntriesResults(idx) ==
  LET dates == { c.date : c \in idx }
      sorted == SortedStrs(dates)
      firsts == { f \in [dates -> idx] : \A d \in dates : f[d].date = d }
  IN  { [i \in 1..Len(sorted) |->
           [date |-> sorted[i],
            chunks |-> Cardinality({ c \in idx : c.date = sorted[i] }),
            word_count |-> f[sorted[i]].word_count]] : f \in firsts }

RECURSIVE TotalWords(_)
TotalWords(S) ==
  IF S = {} THEN 0
  ELSE LET c == CHOOSE x \in S : TRUE IN c.word_count + TotalWords(S \ {c})

\* A get_stats that counts the chunks as the entries.
GetStatsPerChunk(idx) ==
  LET unique_dates == SortedStrs({ c.date : c \in idx })
  IN  [total_entries |-> Cardinality(idx),
       total_chunks |-> Cardinality(idx),
       total_words |-> TotalWords(idx),
       date_range |->
         [first |-> IF unique_dates # <<>> THEN Some(unique_dates[1])
                    ELSE None,
          last |-> IF unique_dates # <<>>
                   THEN Some(unique_dates[Len(unique_dates)]) ELSE None]]

\* get_stats()
GetStats(idx) ==
  LET unique_dates == SortedStrs({ c.date : c \in idx })
  IN  [total_entries |-> Len(unique_dates),
       total_chunks |-> Cardinality(idx),
       total_words |-> TotalWords(idx),
       date_range |->
         [first |-> IF unique_dates # <<>> THEN Some(unique_dates[1])
                    ELSE None,
          last |-> IF unique_dates # <<>>
                   THEN Some(unique_dates[Len(unique_dates)]) ELSE None]]

\* list_backups(): the snapshots, latest st_mtime first (equal st_mtime: in
\* the order iterdir() yields them), each with its name and st_mtime.
ListBackupsResults(bs) ==
  { [i \in 1..Len(l) |-> [name |-> Name(l[i]), created |-> l[i].mtime]] :
      l \in { r \in Rankings(bs, Cardinality(bs)) :
                \A i \in 1..Len(r) - 1 : r[i].mtime >= r[i + 1].mtime } }

\* A read that empties the backups directory.
ReadDonePruning(op, arg, ret) ==
  /\ call' = Call(op, arg, "done", ret, NoSnap, {})
  /\ backups' = {}
  /\ UNCHANGED <<index, dbMtime, now>>
  /\ UNCHANGED chunkVars
  /\ UNCHANGED pluginVars
  /\ UNCHANGED siblingVars

ReadDone(op, arg, ret) ==
  /\ call' = Call(op, arg, "done", ret, NoSnap, {})
  /\ UNCHANGED <<index, dbMtime, backups, now>>
  /\ UNCHANGED chunkVars
  /\ UNCHANGED pluginVars
  /\ UNCHANGED siblingVars

Search(n_results) ==
  /\ Idle
  /\ \E r \in SearchResults(index, n_results) :
       ReadDone("search", <<n_results>>, r)

\* has_query: whether a query string was given.
SearchByDateRange(start_date, end_date, has_query, n_results) ==
  /\ Idle
  /\ \E r \in SearchByDateRangeResults(index, start_date, end_date,
                                       n_results) :
       ReadDone("search_by_date_range",
                <<start_date, end_date, has_query, n_results>>, r)

GetAllDatesCall ==
  /\ Idle
  /\ ReadDone("get_all_dates", <<>>, RetList(GetAllDates(index)))

ListAllEntries ==
  /\ Idle
  /\ \E l \in ListAllEntriesResults(index) :
       ReadDone("list_all_entries", <<>>, RetList(l))

GetStatsCall ==
  /\ Idle
  /\ ReadDone("get_stats", <<>>, RetStats(GetStats(index)))

ListBackups ==
  /\ Idle
  /\ \E l \in ListBackupsResults(backups) :
       ReadDone("list_backups", <<>>, RetList(l))

(***************************************************************************)
(* The read operations on an index that earlier ingestions and deletions   *)
(* left.                                                                   *)
(***************************************************************************)
QueryDates == {Date1, Date2, Date3}
QueryLimits == 1..2

\* The snapshots earlier calls of backup left.
EarlierBackups ==
  { [ts |-> 0, reason |-> r, mtime |-> 0, content |-> EarlierIndex] :
      r \in {"manual", "pre-delete"} }

InitQuery ==
  /\ index \in SUBSET EarlierIndex
  /\ dbMtime = 0
  /\ backups \in SUBSET EarlierBackups
  /\ now = 0
  /\ call = NoCall
  /\ IdleLoader
  /\ LoneIndex
  /\ IdleChunker

NextQuery ==
  \/ \E n \in QueryLimits : Search(n)
  \/ \E s \in QueryDates, e \in QueryDates, q \in BOOLEAN,
        n \in QueryLimits : SearchByDateRange(s, e, q, n)
  \/ GetAllDatesCall
  \/ ListAllEntries
  \/ GetStatsCall
  \/ ListBackups

SpecQuery == InitQuery /\ [][NextQuery]_vars

(***************************************************************************)
(* The deletions on an index whose entries carry the dates the OCR step    *)
(* wrote: the value of --date, or else the stem of the image file, which   *)
(* nothing checks to be YYYY-MM-DD.                                        *)
(***************************************************************************)
DateShort == <<"2", "0", "2", "5", "-", "0", "1", "-", "1">>

FileShort == GoodFile(0, TextShort, DateShort, 1)

DeleteDir == Dir(TRUE, <<FileShort, FileLong, FileLater>>)
DeleteDates == {DateShort, Date1, Date2, Date3}

DeleteIndex ==
  IngestFromOcr(DeleteDir, StoreParams.chunk_size, StoreParams.overlap,
                {}).index

InitDelete ==
  /\ index \in SUBSET DeleteIndex
  /\ dbMtime = 0
  /\ backups = {}
  /\ now = 0
  /\ call = NoCall
  /\ IdleLoader
  /\ LoneIndex
  /\ IdleChunker

NextDelete ==
  \/ Ingest(DeleteDir, StoreParams.chunk_size, StoreParams.overlap)
  \/ \E date \in DeleteDates : DeleteEntryByDateCall(date)
  \/ DeleteEntryByDate
  \/ \E entry_id \in DeleteDates : DeleteEntryByIdCall(entry_id)
  \/ DeleteEntryById
  \/ Tick

SpecDelete == InitDelete /\ [][NextDelete]_vars

(***************************************************************************)
(* The commands delete and clear of main() and of interactive_search().    *)
(***************************************************************************)
\* str.lower() on the letters of the answers.
LowerChar(c) ==
  CASE c = "Y" -> "y"
    [] c = "E" -> "e"
    [] c = "S" -> "s"
    [] c = "D" -> "d"
    [] c = "L" -> "l"
    [] c = "T" -> "t"
    [] c = "A" -> "a"
    [] OTHER -> c

Lower(s) == [i \in 1..Len(s) |-> LowerChar(s[i])]

AnswerYes == <<"y", "e", "s">>
AnswerY == <<"y">>
AnswerDeleteAll == <<"D", "E", "L", "E", "T", "E", " ", "A", "L", "L">>

\* What the user types at the prompt.
Answers ==
  { AnswerYes, AnswerY, <<"Y", "E", "S">>, <<"Y">>, <<"Y", "e", "s">>,
    <<"n", "o">>, <<>>, <<"y", "e", "s", " ">>, AnswerDeleteAll,
    Lower(AnswerDeleteAll), <<"D", "E", "L", "E", "T", "E">>,
    <<"D", "E", "L", "E", "T", "E", " ", "A", "L", "L", " ">> }

\* confirm.lower() in ['yes', 'y']
ConfirmsDelete(answer) == Lower(answer) \in {AnswerYes, AnswerY}

\* A clear that takes the phrase in any case.
ConfirmsClearAnyCase(answer) == Lower(answer) = Lower(AnswerDeleteAll)

\* confirm == 'DELETE ALL'
ConfirmsClear(answer) == answer = AnswerDeleteAll

\* print("Cancelled")
Cancelled(op, arg) ==
  /\ Idle
  /\ call' = Call(op, arg, "done", RetInt(0), NoSnap, {})
  /\ UNCHANGED <<index, dbMtime, backups, now>>
  /\ UNCHANGED chunkVars
  /\ UNCHANGED pluginVars
  /\ UNCHANGED siblingVars

\* main(): delete <date> [--yes]
MainDelete(date, yes, answer) ==
  IF yes \/ ConfirmsDelete(answer)
  THEN DeleteEntryByDateStart(<<date, yes, answer>>)
  ELSE Cancelled("cancelled_delete", <<date, yes, answer>>)

\* main(): clear [--yes]
MainClear(yes, answer) ==
  IF yes \/ ConfirmsClear(answer)
  THEN ClearAllEntriesStart(<<yes, answer>>)
  ELSE Cancelled("cancelled_clear", <<yes, answer>>)

\* interactive_search(): delete <date>
InteractiveDelete(date, answer) ==
  IF ConfirmsDelete(answer)
  THEN DeleteEntryByDateStart(<<date, FALSE, answer>>)
  ELSE Cancelled("cancelled_delete", <<date, FALSE, answer>>)

\* interactive_search(): clear
InteractiveClear(answer) ==
  IF ConfirmsClear(answer)
  THEN ClearAllEntriesStart(<<FALSE, answer>>)
  ELSE Cancelled("cancelled_clear", <<FALSE, answer>>)

NextCli ==
  \/ \E date \in StoreDates, yes \in BOOLEAN, answer \in Answers :
       MainDelete(date, yes, answer)
  \/ \E yes \in BOOLEAN, answer \in Answers : MainClear(yes, answer)
  \/ \E date \in StoreDates, answer \in Answers :
       InteractiveDelete(date, answer)
  \/ \E answer \in Answers : InteractiveClear(answer)
  \/ DeleteEntryByDate
  \/ ClearAllEntries
  \/ Tick

SpecCli == Init /\ [][NextCli]_vars

(***************************************************************************)
(* plugin_loader: register and discover_plugins.                           *)
(***************************************************************************)
MaxDirect == 2

\* PluginInfo; render stands for the decorated function: the file that
\* defines it (<<"direct">> for a register() made outside a discovery) and
\* its rank among the register() calls of that file.
PluginInfo(name, order, render) ==
  [name |-> name, order |-> order, render |-> render, source_file |-> <<>>]

\* A plugin file: the register() calls its import makes, then how the
\* import ends: "ok", "exception" (it raises an Exception) or "exit" (it
\* raises SystemExit, which is no Exception).
PluginFile(name, regs, ends) == [name |-> name, regs |-> regs, ends |-> ends]

\* The files a plugins directory may hold, in the order of their names (a
\* name is the characters of its stem).
PluginFiles ==
  << PluginFile(<<"_", "h">>, <<[name |-> "X", order |-> 0]>>, "ok"),
     PluginFile(<<"a", "a">>, <<[name |-> "Z", order |-> 2]>>, "ok"),
     PluginFile(<<"b", "b">>, <<[name |-> "A", order |-> 1]>>, "ok"),
     PluginFile(<<"b", "r">>, <<>>, "exception"),
     PluginFile(<<"c", "c">>,
                <<[name |-> "T", order |-> 2], [name |-> "U", order |-> 1]>>,
                "ok"),
     PluginFile(<<"h", "a">>, <<[name |-> "H", order |-> 1]>>, "exception"),
     PluginFile(<<"q", "u">>, <<>>, "exit") >>

\* py_file.name.startswith("_")
Skipped(f) == f.name[1] = "_"

\* register(name, order=order)(func): _registry.append(PluginInfo(...))
RECURSIVE Registered(_, _, _, _)
Registered(reg, file, regs, k) ==
  IF k > Len(regs) THEN reg
  ELSE Registered(Append(reg, PluginInfo(regs[k].name, regs[k].order,
                                         <<file, k>>)),
                  file, regs, k + 1)

\* for info in _registry[before:]: if not info.source_file: ...
Tagged(reg, before_, name) ==
  [i \in 1..Len(reg) |->
     IF i > before_ /\ reg[i].source_file = <<>>
     THEN [reg[i] EXCEPT !.source_file = name] ELSE reg[i]]

\* sorted(_registry, key=lambda p: p.order): the sort is stable.
RECURSIVE InsertByOrder(_, _)
InsertByOrder(sorted, p) ==
  IF sorted = <<>> THEN <<p>>
  ELSE IF Head(sorted).order <= p.order
       THEN <<Head(sorted)>> \o InsertByOrder(Tail(sorted), p)
       ELSE <<p>> \o sorted

RECURSIVE SortedByOrder(_)
SortedByOrder(reg) ==
  IF reg = <<>> THEN <<>>
  ELSE InsertByOrder(SortedByOrder(SubSeq(reg, 1, Len(reg) - 1)),
                     reg[Len(reg)])

\* for py_file in sorted(plugins_dir.glob("*.py")), from the k-th file on;
\* files is the set of the ranks in PluginFiles of the files in the
\* directory.  raised: an exception left discover_plugins.
RECURSIVE LoadPlugins(_, _, _)
LoadPlugins(files, k, reg) ==
  IF k > Len(PluginFiles) THEN [registry |-> reg, raised |-> FALSE]
  ELSE LET f == PluginFiles[k]
           after == Registered(reg, f.name, f.regs, 1)
       IN  IF k \notin files \/ Skipped(f)
           THEN LoadPlugins(files, k + 1, reg)
           ELSE IF f.ends = "exit" THEN [registry |-> after, raised |-> TRUE]
           ELSE IF f.ends = "exception" THEN LoadPlugins(files, k + 1, after)
           ELSE LoadPlugins(files, k + 1, Tagged(after, Len(reg), f.name))

\* A discovery that keeps what the registry held.
DiscoverPluginsNoClear(exists, files) ==
  /\ LET r == LoadPlugins(files, 1, registry)
     IN  /\ registry' = IF exists THEN r.registry ELSE registry
         /\ discovered' =
              IF ~exists
              THEN [dir |-> files, exists |-> FALSE, kind |-> "list",
                    val |-> <<>>]
              ELSE IF r.raised
              THEN [dir |-> files, exists |-> TRUE, kind |-> "raise",
                    val |-> <<>>]
              ELSE [dir |-> files, exists |-> TRUE, kind |-> "list",
                    val |-> SortedByOrder(r.registry)]
  /\ UNCHANGED sysVars
  /\ UNCHANGED chunkVars
  /\ UNCHANGED siblingVars

\* discover_plugins(plugins_dir)
DiscoverPlugins(exists, files) ==
  /\ LET r == LoadPlugins(files, 1, <<>>)
     IN  /\ registry' = IF exists THEN r.registry ELSE <<>>
         /\ discovered' =
              IF ~exists
              THEN [dir |-> files, exists |-> FALSE, kind |-> "list",
                    val |-> <<>>]
              ELSE IF r.raised
              THEN [dir |-> files, exists |-> TRUE, kind |-> "raise",
                    val |-> <<>>]
              ELSE [dir |-> files, exists |-> TRUE, kind |-> "list",
                    val |-> SortedByOrder(r.registry)]
  /\ UNCHANGED sysVars
  /\ UNCHANGED chunkVars
  /\ UNCHANGED siblingVars

\* @register(name, order=order) outside a discovery
Register(name, order) ==
  /\ Cardinality({ i \in 1..Len(registry) : registry[i].render[1] = <<"direct">> })
       < MaxDirect
  /\ registry' = Append(registry,
                        PluginInfo(name, order, <<<<"direct">>, Len(registry)>>))
  /\ UNCHANGED discovered
  /\ UNCHANGED sysVars
  /\ UNCHANGED chunkVars
  /\ UNCHANGED siblingVars

DirectNames == {"D", "A"}
DirectOrders == {0, 2}

InitLoader ==
  /\ index = {}
  /\ dbMtime = 0
  /\ backups = {}
  /\ now = 0
  /\ call = NoCall
  /\ IdleLoader
  /\ LoneIndex
  /\ IdleChunker

NextLoader ==
  \/ \E exists \in BOOLEAN, files \in SUBSET (1..Len(PluginFiles)) :
       (exists \/ files = {}) /\ DiscoverPlugins(exists, files)
  \/ \E name \in DirectNames, order \in DirectOrders : Register(name, order)

SpecLoader == InitLoader /\ [][NextLoader]_vars

(***************************************************************************)
(* Two stores: this JournalRAG on DbPath and a second one on another       *)
(* db_path, in the same parent directory or in another one.  Each works in *)
(* the backups directory its own db_path gives.                            *)
(***************************************************************************)
OtherPaths == {<<"p", "other_db">>, <<"q", "vector_db">>}

\* What the second store holds.
OtherIndex == { c \in EarlierIndex : c.date = Date2 }

OtherReasons == {"manual", "pre-delete", "pre-clear"}

\* The two stores have the same backups directory.
SharedDir ==
  sibling.path # <<>> /\ BackupDir(sibling.path) = BackupDir(DbPath)

\* The directories under the backups directory of the second store.
OtherBackups == IF SharedDir THEN backups ELSE sibling.dir

OtherSnapshot(reason) ==
  [ts |-> now, reason |-> reason, mtime |-> 0, content |-> OtherIndex]

\* backup(reason) of the second store, called directly or by one of its
\* destructive operations.
OtherBackup(reason) ==
  /\ Idle
  /\ sibling.path # <<>>
  /\ \/ /\ \E b \in OtherBackups : Name(b) = BackupName(reason)
        /\ call' = Call("other_backup", <<reason>>, "done",
                        Raised("FileExistsError"), NoSnap, {})
        /\ UNCHANGED <<backups, sibling>>
     \/ /\ ~(\E b \in OtherBackups : Name(b) = BackupName(reason))
        /\ \E R \in Removable(OtherBackups \cup {OtherSnapshot(reason)}) :
             LET left == (OtherBackups \cup {OtherSnapshot(reason)}) \ R
             IN  /\ backups' = IF SharedDir THEN left ELSE backups
                 /\ sibling' =
                      [sibling EXCEPT
                         !.made = @ \cup {OtherSnapshot(reason)},
                         !.dir = IF SharedDir THEN @ ELSE left]
                 /\ call' = Call("other_backup", <<reason>>, "done", RetPath,
                                 BackupName(reason), R)
  /\ UNCHANGED <<index, dbMtime, now>>
  /\ UNCHANGED chunkVars
  /\ UNCHANGED pluginVars

InitSiblings ==
  /\ index = EarlierIndex
  /\ dbMtime = 0
  /\ backups = {}
  /\ now = 0
  /\ call = NoCall
  /\ sibling \in { [path |-> p, made |-> {}, dir |-> {}] : p \in OtherPaths }
  /\ registry = <<>>
  /\ discovered = NoDiscovery
  /\ IdleChunker

NextSiblings ==
  \/ Backup
  \/ \E reason \in OtherReasons : OtherBackup(reason)
  \/ ListBackups
  \/ Tick

SpecSiblings == InitSiblings /\ [][NextSiblings]_vars

(***************************************************************************)
(* Properties.                                                             *)
(***************************************************************************)
DestructiveOps == {"delete_by_date", "delete_by_id", "clear"}

DatesOf(idx) == { c.date : c \in idx }

ChunksOfDate(idx, date) == { c \in idx : c.date = date }

\* C1 (SpecIngest): an ingestion that repeats the ingestion before it (same
\* directory, chunk size and overlap) leaves the chunk ids and count() as the
\* first run left them, stores no id twice, and has the same result.
C1_IdempotentIngest ==
  (call.op = "ingest" /\ call.rep) =>
    /\ Ids(index) = Ids(call.pre)
    /\ Cardinality(index) = Cardinality(call.pre)
    /\ Cardinality(Ids(index)) = Cardinality(index)
    /\ call.ret = call.prevRet

\* A second run over a directory of two entries, both counted again.
C1_Witness ==
  /\ call.op = "ingest"
  /\ call.rep
  /\ call.ret = RetInt(2)
  /\ Cardinality(index) >= 4

\* C2 (Spec): a destructive call on a non-empty index that got past its
\* backup has a snapshot of the index as it was when the call was made: it
\* is there before any chunk is removed and still there when the call
\* returns.
C2_SnapshotBeforeDelete ==
  (call.op \in DestructiveOps /\ call.pre # {} /\ call.snap # NoSnap) =>
    /\ \E b \in backups : Name(b) = call.snap /\ b.content = call.pre
    /\ call.stage = "backed_up" => index = call.pre

\* C3 (Spec): clear_all on n > 0 chunks returns n and leaves count() = 0, and
\* the snapshot it took can be restored to the n chunks that were there.
C3_ClearRestoreRoundTrip ==
  (call.op = "clear" /\ call.stage = "done" /\ call.pre # {}
     /\ call.ret.kind # "raise") =>
    /\ call.ret = RetInt(Cardinality(call.pre))
    /\ Cardinality(index) = 0
    /\ \E b \in backups : Name(b) = call.snap /\ b.content = call.pre

\* C4 (Spec): whenever no operation is in progress the backups directory
\* holds at most 5 snapshots.
C4_RetentionBound == Idle => Cardinality(backups) <= KeepBackups

\* The retention step has just removed a snapshot.
C4_Witness ==
  Idle /\ call.pruned # {} /\ Cardinality(backups) = KeepBackups

\* C5 (Spec): what the retention step removes is older than what it keeps:
\* never the snapshot the call has just made, and never one of a later
\* second than a snapshot that is kept.
C5_RetentionKeepsNewest ==
  \A r \in call.pruned :
    /\ Name(r) # call.snap
    /\ \A k \in backups : r.ts <= k.ts

\* C6 (SpecIngest): a malformed first entry does not abort the run: the
\* well-formed entry after it is counted and stored.
C6_FaultTolerantIngest ==
  (call.op = "ingest" /\ call.arg[1] \in BadDirs) =>
    /\ call.ret.kind = "int"
    /\ call.ret.val >= 1
    /\ \E c \in index : c.date = FileLater.entry_date

\* C7 (Spec): the chunks stored for one date have chunk_index 0..n-1 and all
\* carry total_chunks = n.
C7_ChunkMetadataInvariant ==
  \A date \in DatesOf(index) :
    LET stored == ChunksOfDate(index, date)
        n == Cardinality(stored)
    IN  /\ { c.chunk_index : c \in stored } = 0..(n - 1)
        /\ \A c \in stored : c.total_chunks = n

\* C8 (SpecIngest): an ingestion that returns has stored, for every entry
\* with text longer than chunk_size and a date the index held no chunk of,
\* the n chunks of the chunker: chunk_index 0..n-1, ids <date>_chunk_<i>,
\* total_chunks n in each.
C8_FreshIngestContiguity ==
  (call.op = "ingest" /\ call.ret.kind = "int") =>
    \A k \in 1..Len(call.arg[1].files) :
      LET f == call.arg[1].files[k]
          text == Strip(f.raw)
          stored == ChunksOfDate(index, f.entry_date)
          n == Len(ChunkText(text, call.arg[2], call.arg[3]).chunks)
      IN  (/\ f.kind = "ok"
           /\ Len(text) > call.arg[2]
           /\ ChunksOfDate(call.pre, f.entry_date) = {}) =>
            /\ Cardinality(stored) = n
            /\ { c.chunk_index : c \in stored } = 0..(n - 1)
            /\ \A c \in stored : /\ c.id = ChunkId(f.entry_date, c.chunk_index)
                                 /\ c.total_chunks = n

\* A long entry went into an index that held nothing of its date.
C8_Witness ==
  /\ call.op = "ingest"
  /\ call.ret.kind = "int"
  /\ call.arg[1] = StoreDir
  /\ ChunksOfDate(call.pre, Date1) = {}
  /\ Cardinality(ChunksOfDate(index, Date1)) >= 2

\* C9 (SpecIngest): no stored chunk has empty text.
C9_NoEmptyChunk == \A c \in index : c.text # <<>>

\* C10 (SpecChunk): every chunk is a contiguous part of the text, at most
\* chunk_size long.
C10_ChunkLengthBound ==
  \A i \in 1..Len(cChunks) :
    /\ Len(cChunks[i]) <= cSize
    /\ \E a \in 0..Len(cText) :
         SubSeq(cText, a + 1, a + Len(cChunks[i])) = cChunks[i]

\* C11 (SpecChunk): a text no longer than chunk_size never enters the loop,
\* and the call returns the one-element list [text], the text unchanged, for
\* every overlap.
C11_ShortTextPassthrough ==
  Len(cText) <= cSize =>
    /\ cPc \in {"idle", "call", "return"}
    /\ cPc = "return" => cChunks = <<cText>>

\* A returned text of exactly chunk_size characters that strip() would have
\* changed.
C11_Witness ==
  /\ cPc = "return"
  /\ Len(cText) = cSize
  /\ Strip(cText) # cText
  /\ cChunks = <<cText>>

\* C12 (SpecChunk): with overlap >= chunk_size on a text longer than
\* chunk_size the call comes back: no iteration of the loop leaves start
\* where it was (start is all the loop's state, so an iteration that does
\* repeats forever).
C12_BadOverlapReturns ==
  [][(cPc = "loop" /\ cOverlap >= cSize /\ Len(cText) > cSize)
       => (cStart' # cStart \/ cPc' # "loop")]_vars

ReadOps ==
  {"search", "search_by_date_range", "get_all_dates", "list_all_entries",
   "get_stats"}

\* C14 (SpecQuery): on an index with count() = 0 no read operation raises:
\* search, search_by_date_range, get_all_dates and list_all_entries return
\* the empty list, and get_stats returns zeros and a date range of None.
C14_EmptyIndexNoError ==
  (call.op \in ReadOps /\ call.pre = {}) =>
    /\ call.ret.kind # "raise"
    /\ call.ret.kind = "list" => call.ret.val = <<>>
    /\ call.ret.kind = "stats" =>
         /\ call.ret.val.total_entries = 0
         /\ call.ret.val.total_chunks = 0
         /\ call.ret.val.total_words = 0
         /\ call.ret.val.date_range = [first |-> None, last |-> None]

\* C13 (Spec): every stored chunk's id is "<date>_chunk_<chunk_index>" of
\* its own metadata, and no two stored chunks share (date, chunk_index).
C13_DeterministicIdentity ==
  /\ \A c \in index : c.id = ChunkId(c.date, c.chunk_index)
  /\ \A c, d \in index :
       (c.date = d.date /\ c.chunk_index = d.chunk_index) => c = d

\* An ingestion added the chunks of two dates, one of them in two chunks.
C13_Witness ==
  /\ call.op = "ingest"
  /\ call.pre # index
  /\ Cardinality(DatesOf(index)) = 2
  /\ \E c \in index : c.chunk_index = 1

\* C15 (Spec): an ingestion of a source directory that does not exist, or
\* lacks text/ or metadata/, raises FileNotFoundError and leaves the index
\* and the snapshots as they were.
C15_MissingSourceAborts ==
  [][(call'.op = "ingest" /\ call' # call /\ ~call'.arg[1].exists) =>
       /\ call'.ret = Raised("FileNotFoundError")
       /\ index' = index
       /\ backups' = backups]_vars

\* The failed ingestion happened on a store that holds chunks and snapshots.
C15_Witness ==
  /\ call.op = "ingest"
  /\ ~call.arg[1].exists
  /\ call.ret = Raised("FileNotFoundError")
  /\ index # {}
  /\ backups # {}

\* The argument of restore names a snapshot (a path that is no snapshot is
\* "missing", "live" or "foreign").
IsSnapshotPath(arg) == Len(arg) = 2

\* C16 (Spec): restore of a path that is no snapshot directory fails, and
\* leaves the index and the snapshots as they were.
C16_InvalidRestoreHarmless ==
  [][(call'.op = "restore" /\ call' # call /\ ~IsSnapshotPath(call'.arg)) =>
       /\ call'.ret # RetBool(TRUE)
       /\ index' = index
       /\ backups' = backups]_vars

\* C17 (Spec): from the call of restore(path) of a snapshot on, the index
\* is what it was before the call or what the snapshot holds.
C17_RestoreAtomic ==
  (call.op = "restore" /\ IsSnapshotPath(call.arg)) =>
    \/ index = call.pre
    \/ \E b \in backups : Name(b) = call.arg /\ index = b.content

\* C18 (Spec): no step of restore adds, removes or changes a snapshot.
C18_RestoreKeepsSnapshots ==
  [][call'.op = "restore" => backups' = backups]_vars

\* A restore that changed the index, with two or more snapshots there.
C18_Witness ==
  /\ call.op = "restore"
  /\ IsSnapshotPath(call.arg)
  /\ call.ret = RetBool(TRUE)
  /\ index # call.pre
  /\ Cardinality(backups) >= 2

\* C19 (Spec): delete_by_date(d) removes the chunks of date d and no other,
\* and returns count() before the call minus count() after it.
C19_DeleteByDateEffect ==
  (call.op = "delete_by_date" /\ call.stage = "done") =>
    /\ index = { c \in call.pre : c.date # call.arg[1] }
    /\ call.ret = RetInt(Cardinality(call.pre) - Cardinality(index))

\* C20 (Spec): a destructive operation that returns, returns the number of
\* chunks it removed (True counts as 1 and False as 0, as Python compares
\* them).
C20_ReturnsCountDeleted ==
  (call.op \in DestructiveOps /\ call.stage = "done"
     /\ call.ret.kind # "raise") =>
    call.ret.val = Cardinality(call.pre) - Cardinality(index)

\* C21 (SpecDelete): delete_entry_by_id(d) of a date d that is stored removes
\* exactly the chunks whose date is d, the set delete_entry_by_date(d)
\* removes, and leaves every chunk of another date in the index.
C21_DeleteByIdDeletesOneEntry ==
  ( /\ call.op = "delete_by_id"
    /\ call.stage = "done"
    /\ call.ret.kind = "bool"
    /\ call.arg[1] \in DatesOf(call.pre) )
  => index = call.pre \ ChunksOfDate(call.pre, call.arg[1])

\* C22 (Spec): a delete_entry_by_date or delete_entry_by_id that matches no
\* chunk returns 0 / False and leaves the index as it was, and when it
\* returns the snapshot it took of that index is in the backups directory.
NoMatch ==
  \/ call.op = "delete_by_date" /\ IdsOfDate(call.pre, call.arg[1]) = {}
  \/ call.op = "delete_by_id" /\ MatchingIds(call.pre, call.arg[1]) = {}

C22_NoOpDeleteStillSnapshots ==
  (NoMatch /\ call.stage = "done") =>
    /\ call.ret = IF call.op = "delete_by_date" THEN RetInt(0)
                  ELSE RetBool(FALSE)
    /\ index = call.pre
    /\ \E b \in backups : Name(b) = call.snap /\ b.content = call.pre

\* C23 (Spec): clear_all_entries on an empty index returns 0, takes no
\* snapshot, removes no snapshot and leaves the index empty.
C23_ClearEmptyIsNoOp ==
  [][(ClearAllEntriesCall /\ index = {}) =>
       /\ call'.stage = "done"
       /\ call'.ret = RetInt(0)
       /\ backups' = backups
       /\ index' = {}]_vars

C23_Witness ==
  /\ call.op = "clear"
  /\ call.pre = {}
  /\ call.ret = RetInt(0)
  /\ backups # {}

\* C24 (SpecQuery): get_stats().total_words is the sum, over the dates in
\* the index, of the date's word_count, taken once for each date however
\* many chunks the entry of that date has.
RECURSIVE WordsOncePerDate(_, _)
WordsOncePerDate(idx, dates) ==
  IF dates = {} THEN 0
  ELSE LET d == CHOOSE x \in dates : TRUE
           c == CHOOSE x \in idx : x.date = d
       IN  c.word_count + WordsOncePerDate(idx, dates \ {d})

C24_TotalWordsOncePerDate ==
  call.op = "get_stats" =>
    call.ret.val.total_words = WordsOncePerDate(index, DatesOf(index))

\* C25 (SpecQuery): in every index state get_stats().total_entries, the
\* length of get_all_dates() and the length of list_all_entries() are the
\* number of distinct dates stored; total_chunks is count(), which is the
\* sum of the chunk counts list_all_entries() gives; both lists are in
\* strictly ascending date order; date_range.first / last are the least and
\* the greatest date stored.
RECURSIVE SumChunks(_)
SumChunks(l) == IF l = <<>> THEN 0 ELSE Head(l).chunks + SumChunks(Tail(l))

StrictlyAscending(dates) ==
  \A i \in 1..Len(dates) - 1 :
    StrLeq(dates[i], dates[i + 1]) /\ dates[i] # dates[i + 1]

LeastDate(idx, d) == d \in DatesOf(idx) /\ \A e \in DatesOf(idx) : StrLeq(d, e)

GreatestDate(idx, d) ==
  d \in DatesOf(idx) /\ \A e \in DatesOf(idx) : StrLeq(e, d)

C25_CatalogConsistency ==
  /\ call.op = "get_stats" =>
       LET s == call.ret.val
       IN  /\ s.total_entries = Cardinality(DatesOf(index))
           /\ s.total_chunks = Cardinality(index)
           /\ index = {} =>
                s.date_range.first = None /\ s.date_range.last = None
           /\ index # {} =>
                /\ ~s.date_range.first.isNone
                /\ ~s.date_range.last.isNone
                /\ LeastDate(index, s.date_range.first.val)
                /\ GreatestDate(index, s.date_range.last.val)
  /\ call.op = "get_all_dates" =>
       LET l == call.ret.val
       IN  /\ Len(l) = Cardinality(DatesOf(index))
           /\ { l[i] : i \in 1..Len(l) } = DatesOf(index)
           /\ StrictlyAscending(l)
  /\ call.op = "list_all_entries" =>
       LET l == call.ret.val
       IN  /\ Len(l) = Cardinality(DatesOf(index))
           /\ { l[i].date : i \in 1..Len(l) } = DatesOf(index)
           /\ StrictlyAscending([i \in 1..Len(l) |-> l[i].date])
           /\ SumChunks(l) = Cardinality(index)
           /\ \A i \in 1..Len(l) :
                l[i].chunks = Cardinality(ChunksOfDate(index, l[i].date))

C25_Witness ==
  /\ call.op = "get_stats"
  /\ call.ret.val.total_entries = 2
  /\ call.ret.val.total_chunks = 3
  /\ call.ret.val.date_range.first = Some(Date1)
  /\ call.ret.val.date_range.last = Some(Date2)

\* C26 (SpecQuery): search, search_by_date_range, get_stats,
\* list_all_entries, get_all_dates and list_backups leave the chunks of the
\* index and the set of snapshots as they are, whatever they return.
C26_ReadsHaveNoSideEffects ==
  [][call'.op \in ReadOps \cup {"list_backups"} =>
       index' = index /\ backups' = backups]_vars

C26_Witness ==
  /\ call.op = "list_backups"
  /\ Len(call.ret.val) = 2
  /\ backups = EarlierBackups
  /\ index = EarlierIndex

\* C27 (SpecQuery): search_by_date_range(start, end, query, k) returns at
\* most k results, each the listing of a stored chunk whose date d has
\* start <= d <= end, and returns the empty list when start > end.
C27_DateRangeFilter ==
  call.op = "search_by_date_range" =>
    LET start_date == call.arg[1]
        end_date == call.arg[2]
        n_results == call.arg[4]
    IN  /\ call.ret.kind = "list"
        /\ Len(call.ret.val) <= n_results
        /\ \A i \in 1..Len(call.ret.val) :
             \E c \in index :
               /\ call.ret.val[i] = Hit(c)
               /\ InDateRange(c, start_date, end_date)
        /\ ~StrLeq(start_date, end_date) => call.ret.val = <<>>

\* C28 (SpecIngest): ingest_from_ocr returns the number of text files that
\* have a metadata file and text that is not empty, whether their chunks were
\* added or were all there already; a file without a metadata file or with
\* empty text is not counted and no chunk of it is added.
Counted(f) == f.kind # "missing" /\ Strip(f.raw) # <<>>

CountedFiles(dir) ==
  { k \in 1..Len(dir.files) : Counted(dir.files[k]) }

C28_IngestReturnCount ==
  (call.op = "ingest" /\ call.arg[1].exists) =>
    LET dir == call.arg[1]
    IN  /\ call.ret = RetInt(Cardinality(CountedFiles(dir)))
        /\ \A c \in index \ call.pre :
             \E k \in CountedFiles(dir) :
               /\ c.source_file = dir.files[k].name
               /\ c.date = dir.files[k].entry_date

\* C29 (SpecChunk): with overlap <= 0 _chunk_text raises nothing, its loop
\* ends (every window moves start forward, so there are never more windows
\* than start counts characters), and no character of the text lies in two
\* of the windows text[start:end] it appended.
WindowChars(text, w) ==
  { k \in 0..(Len(text) - 1) :
      PyClamp(text, w[1]) <= k /\ k < PyClamp(text, w[2]) }

C29_NonPositiveOverlapDisjoint ==
  cOverlap <= 0 =>
    /\ cPc # "raise"
    /\ cPc = "loop" => Len(cWindows) <= cStart
    /\ Len(cWindows) <= Len(cText)
    /\ \A i \in 1..Len(cWindows) : \A j \in 1..Len(cWindows) :
         i # j =>
           WindowChars(cText, cWindows[i]) \cap WindowChars(cText, cWindows[j])
             = {}

C29_Witness ==
  /\ cPc = "return"
  /\ cOverlap < 0
  /\ Len(cWindows) >= 2
  /\ \E i \in 1..Len(cWindows) : cWindows[i][2] - cWindows[i][1] < cSize

\* text[i] is a sentence terminator followed by whitespace.
BoundaryAt(text, i) ==
  /\ InRange(text, i)
  /\ IsTerminator(PyAt(text, i))
  /\ i + 1 < Len(text)
  /\ IsSpace(PyAt(text, i + 1))

\* The boundaries at the positions the scan looks at: the nominal end
\* start + chunk_size and those before it, fewer than 100 characters back
\* and after the window start.
Boundaries(text, chunk_size, start) ==
  { i \in (Max(start + chunk_size - Lookback, start) + 1)..(start + chunk_size) :
      BoundaryAt(text, i) }

\* The boundaries at most 100 characters back from the nominal end and not
\* before the window start.
BoundariesInLookback(text, chunk_size, start) ==
  { i \in Max(start + chunk_size - Lookback, start)..(start + chunk_size) :
      BoundaryAt(text, i) }

C31_SnapshotsImmutable ==
  [][/\ \A b \in backups : \A c \in backups' : Name(b) = Name(c) => b = c
     /\ \A c \in backups' \ backups :
          c.content = index /\ Name(c) = call'.snap
     /\ \A b \in backups \ backups' :
          /\ b \in call'.pruned
          /\ call'.op \in DestructiveOps \cup {"backup"}
          /\ call'.snap # NoSnap]_vars

C31_Witness ==
  /\ call.op = "restore"
  /\ call.stage = "done"
  /\ call.ret = RetBool(TRUE)
  /\ \E b \in backups : b.content # index /\ b.content # {}
  /\ \E b \in backups : b.content = index

\* C32 (SpecCli): the delete command calls delete_entry_by_date only when
\* --yes was given or the answer, in lower case, is "yes" or "y"; the clear
\* command calls clear_all_entries only when --yes was given or the answer is
\* exactly "DELETE ALL"; after any other answer no snapshot is taken and the
\* index is as it was.
C32_ConfirmationGate ==
  [][Idle =>
       /\ call'.op \in {"delete_by_date", "cancelled_delete"} =>
            LET yes == call'.arg[2]
                answer == call'.arg[3]
                ok == yes \/ Lower(answer) \in {AnswerYes, AnswerY}
            IN  /\ call'.op = "delete_by_date" <=> ok
                /\ ~ok => index' = index /\ backups' = backups
       /\ call'.op \in {"clear", "cancelled_clear"} =>
            LET yes == call'.arg[1]
                answer == call'.arg[2]
                ok == yes \/ answer = AnswerDeleteAll
            IN  /\ call'.op = "clear" <=> ok
                /\ ~ok => index' = index /\ backups' = backups]_vars

C32_Witness ==
  /\ call.op = "cancelled_clear"
  /\ call.arg[2] = Lower(AnswerDeleteAll)
  /\ index # {}
  /\ \E b \in backups : b.reason = "pre-delete"

\* The plugin files of the directory that discover_plugins imports.
Imported(files) == { k \in files : ~Skipped(PluginFiles[k]) }

\* C33 (SpecLoader): a discovery of a directory returns a list, whatever
\* its plugin files do when imported; the list holds no PluginInfo that a
\* file whose import raised has registered, and holds every PluginInfo that
\* the other plugin files of the directory register.
C33_FailingPluginContributesNothing ==
  (discovered.kind # "none" /\ discovered.exists) =>
    /\ discovered.kind = "list"
    /\ \A i \in 1..Len(discovered.val) :
         \A k \in Imported(discovered.dir) :
           discovered.val[i].render[1] = PluginFiles[k].name
             => PluginFiles[k].ends = "ok"
    /\ \A k \in Imported(discovered.dir) :
         PluginFiles[k].ends = "ok" =>
           \A n \in 1..Len(PluginFiles[k].regs) :
             \E i \in 1..Len(discovered.val) :
               discovered.val[i].render = <<PluginFiles[k].name, n>>

\* The rank of the file of that name in the order of the file names.
FileRank(name) == CHOOSE k \in 1..Len(PluginFiles) : PluginFiles[k].name = name

\* p comes before q in the order in which a discovery registers them: by
\* file name, then by the register() calls of the file.
RegisteredBefore(p, q) ==
  \/ FileRank(p.render[1]) < FileRank(q.render[1])
  \/ p.render[1] = q.render[1] /\ p.render[2] < q.render[2]

\* C34 (SpecLoader): the list discover_plugins returns is in ascending
\* order of `order`, plugins of equal order in file-name order; it holds
\* only what the files of the directory registered in this discovery, each
\* once (nothing registered directly or by an earlier discovery); and a
\* discovery of the same directory as the one before returns the same list.
C34_DiscoveryOrderedRepeatable ==
  [][(discovered'.kind = "list" /\ discovered'.exists) =>
       LET l == discovered'.val
       IN  /\ \A i \in 1..Len(l) : \A j \in 1..Len(l) :
                i < j =>
                  \/ l[i].order < l[j].order
                  \/ l[i].order = l[j].order /\ RegisteredBefore(l[i], l[j])
           /\ \A i \in 1..Len(l) :
                \E k \in Imported(discovered'.dir) :
                  /\ l[i].render[1] = PluginFiles[k].name
                  /\ l[i].render[2] \in 1..Len(PluginFiles[k].regs)
           /\ (discovered.kind = "list" /\ discovered.exists
                 /\ discovered.dir = discovered'.dir) => l = discovered.val]_vars

C34_Witness ==
  /\ discovered.kind = "list"
  /\ Len(discovered.val) = 4
  /\ \E i \in 1..3 : discovered.val[i].order = discovered.val[i + 1].order
  /\ \E i \in 1..Len(registry) : registry[i].render[1] = <<"direct">>

\* C35 (SpecChunk): with chunk_size >= 1 and 0 <= overlap < chunk_size the
\* loop of _chunk_text makes progress: every window starts after the one
\* before it, the next start is after the start of the last window, and no
\* start is negative.
C35_ChunkerProgress ==
  (cSize >= 1 /\ 0 <= cOverlap /\ cOverlap < cSize) =>
    /\ cStart >= 0
    /\ \A i \in 1..Len(cWindows) :
         /\ cWindows[i][1] >= 0
         /\ i < Len(cWindows) => cWindows[i][1] < cWindows[i + 1][1]
    /\ cWindows # <<>> => cWindows[Len(cWindows)][1] < cStart

\* C36 (SpecChunk): when _chunk_text returns for a text longer than
\* chunk_size and an overlap below chunk_size, every character of the text
\* that is not whitespace lies in the window of one of the returned chunks.
C36_ChunkerCoverage ==
  (cPc = "return" /\ Len(cText) > cSize /\ cOverlap < cSize) =>
    \A k \in 0..(Len(cText) - 1) :
      ~IsSpace(cText[k + 1]) =>
        \E i \in 1..Len(cWindows) : k \in WindowChars(cText, cWindows[i])

\* C37 (Spec): no call of backup(reason), made directly or by a destructive
\* operation, fails on the name of a snapshot that is already there: no
\* call ends with the FileExistsError of copytree.
C37_SnapshotNamesNeverClash ==
  ~(call.ret.kind = "raise" /\ call.ret.exc = "FileExistsError")

\* C38 (Spec): a destructive call whose backup() raised ends with that
\* exception and with every chunk still stored; and a destructive call has
\* removed chunks only after its own backup() had returned (the call holds
\* the name of the snapshot it made).
C38_NoDeletionWithoutSnapshot ==
  call.op \in DestructiveOps =>
    /\ call.snap = NoSnap => index = call.pre
    /\ (call.ret.kind = "raise" /\ call.ret.exc = "FileExistsError") =>
         /\ call.stage = "done"
         /\ call.snap = NoSnap
         /\ index = call.pre
    /\ call.stage = "backed_up" => call.snap # NoSnap /\ index = call.pre

\* The backup of a clear_all_entries on a non-empty index has raised.
C38_Witness ==
  /\ call.op = "clear"
  /\ call.ret = Raised("FileExistsError")
  /\ index # {}
  /\ index = call.pre

\* C39 (SpecSameDate): an ingestion leaves every chunk that was stored as
\* it was (the index after it holds the index before it, and no id is
\* stored twice), also when the text of a stored date has changed or two
\* files of the run carry the same entry_date; and collection.add is never
\* given an id that is stored (no run ends with the adapter's refusal).
C39_IngestOnlyAdds ==
  call.op = "ingest" =>
    /\ call.pre \subseteq index
    /\ \A c \in index : \A d \in index : c.id = d.id => c = d
    /\ ~(call.ret.kind = "raise" /\ call.ret.exc = "StorageError")

\* A run over two files of one entry_date has stored chunks of both under
\* that date, next to a chunk that was there before the run.
C39_Witness ==
  /\ call.op = "ingest"
  /\ call.ret = RetInt(2)
  /\ \E c \in index : \E d \in index :
       /\ c.date = d.date
       /\ c.source_file # d.source_file
       /\ c \in call.pre
       /\ d \notin call.pre

\* The snapshots of the second store that lie in the backups directory of
\* this one.
Foreign == IF SharedDir THEN backups \cap sibling.made ELSE {}

\* C40 (SpecSiblings): the two stores' snapshots are apart: a backup of
\* this store removes no snapshot the second store made, a backup of the
\* second store removes none but its own, and list_backups of this store
\* reports no snapshot of the second.
C40_SnapshotIsolation ==
  /\ call.op = "backup" => call.pruned \cap sibling.made = {}
  /\ call.op = "other_backup" => call.pruned \subseteq sibling.made
  /\ (call.op = "list_backups" /\ call.ret.kind = "list") =>
       \A i \in 1..Len(call.ret.val) :
         \A b \in Foreign : call.ret.val[i].name # Name(b)

=============================================================================
